---- MODULE Spec2Model ----
(***************************************************************************)
(* A model of nflogic's ingestion protocol: the parsers of parse.py        *)
(* (reduced to what the orchestrator reads of them: INPUTS, name, data,    *)
(* err), the pickled list partitions of cache.py (CacheHandler), the       *)
(* sqlite tables of db.py and the orchestrator ParserManipulator with the  *)
(* two batch entry points of api.py.                                       *)
(***************************************************************************)
EXTENDS Integers, Sequences, FiniteSets, TLC

(***************************************************************************)
(* Bounds of the model.                                                    *)
(***************************************************************************)
\* number of times the user rewrites a file of the directory
MaxEdits == 1
\* number of add_parser calls made directly on a manipulator (outside a batch)
MaxCalls == 2
\* number of batch runs (parse_dir, parse_cache) started
MaxRuns == 2
\* more durable writes than one add_parser call makes: the fuel of a call
\* that no interrupt cuts short
MaxWrites == 12

\* number of operations on the file of the long-lived handler
MaxOps == 5

\* the xml files of the directory
Paths == {"a.xml", "b.xml"}

\* ParserInput = TypedDict("ParserInput", {"path": str, "buy": bool})
ParserInput == [path : Paths, buy : BOOLEAN]

\* longest list assigned to the data attribute of a handler
MaxData == 2

\* Python values a list may hold, by what is_valid looks at: the type, the
\* length (of a str or a dict), and for a dict the types of the values under
\* "path" and "buy" ("absent" without the key)
PyNone == [type |-> "NoneType", size |-> 0, path |-> "absent", buy |-> "absent"]

PyStr(size) == [type |-> "str", size |-> size, path |-> "absent", buy |-> "absent"]

PyDict(path, buy) ==
    [type |-> "dict",
     size |-> (IF path = "absent" THEN 0 ELSE 1) + (IF buy = "absent" THEN 0 ELSE 1),
     path |-> path, buy |-> buy]

PyValues ==
    {PyNone} \cup {PyStr(size) : size \in 0..1}
        \cup {PyDict(path, buy) : path \in {"absent", "str", "int"},
                                  buy \in {"absent", "bool", "int"}}

\* what may be assigned to the data attribute: a str, or a list
PyData ==
    {[islist |-> FALSE, elems |-> <<>>]}
        \cup {[islist |-> TRUE, elems |-> e] :
                  e \in UNION {[1..n -> PyValues] : n \in 0..MaxData}}

\* bool(value)
Truthy(value) == value.type # "NoneType" /\ value.size # 0

\* the three items the long-lived handler is used with
HandlerItems == ParserInput \ {[path |-> "b.xml", buy |-> TRUE]}

(***************************************************************************)
(* Documents.  A file's content is reduced to what the parsers find in it. *)
(*   readable  open() and decoding succeed                                 *)
(*   emit/dest the <emit>/<dest> tag: "absent", "noxNome" (tag without     *)
(*             xNome child) or the xNome text                              *)
(*   key       the fiscal key doc_nfekey finds, 0 when none of the three   *)
(*             tries finds one                                             *)
(*   dt        "ok" | "bad"   (dhEmi parses with strptime or not)          *)
(*   pay       "ok" | "missing" | "nonnumeric"  (pag > detPag)             *)
(*   total     "ok" | "missing" | "badvalue"    (ICMSTot)                  *)
(*   body      the remaining columns of the fact row                       *)
(*   det       "ok" | "bad" (some <det> lacks xProd or a numeric text)     *)
(*   items     the <det> product lines, in document order                  *)
(*   reread    "ok" | "raises": _get_transac_rows opens the file again     *)
(*             with the platform's default encoding; "raises" is a file    *)
(*             that decodes as utf-8 and not in that encoding              *)
(***************************************************************************)
DocGood ==
    [readable |-> TRUE, emit |-> "A", dest |-> "B", key |-> 1, dt |-> "ok",
     pay |-> "ok", total |-> "ok", body |-> 1, det |-> "ok", items |-> <<1, 2>>,
     reread |-> "ok"]

DocUnreadable == [DocGood EXCEPT !.readable = FALSE]

\* fact extraction succeeds, line extraction fails
DocLineFail == [DocGood EXCEPT !.det = "bad"]

\* fact extraction fails (no ICMSTot), line extraction succeeds
DocFactFail == [DocGood EXCEPT !.total = "missing"]

\* readable xml holding nothing the parsers look for
DocGarbage ==
    [readable |-> TRUE, emit |-> "absent", dest |-> "absent", key |-> 0,
     dt |-> "bad", pay |-> "missing", total |-> "missing", body |-> 1,
     det |-> "ok", items |-> <<>>, reread |-> "ok"]

\* same fiscal key as DocGood, other content; <dest> has no xNome
DocTwin == [DocGood EXCEPT !.dest = "noxNome", !.body = 2, !.items = <<2, 3>>]

\* well-formed utf-8 text holding a byte the default encoding cannot decode
DocLocale == [DocGood EXCEPT !.reread = "raises"]

\* a <vPag> whose text is not a number
DocPayText == [DocGood EXCEPT !.pay = "nonnumeric"]

\* no ICMSTot, and a byte the default encoding cannot decode
DocFactFailLocale == [DocFactFail EXCEPT !.reread = "raises"]

Docs ==
    {DocGood, DocUnreadable, DocLineFail, DocFactFail, DocGarbage, DocTwin, DocLocale,
     DocPayText, DocFactFailLocale}

(***************************************************************************)
(* Names.  parser.name is None (modelled "None", which is also the file    *)
(* name CacheHandler(None) gets), "COULD_NOT_GET_NAME" or                  *)
(* "<prefix> <XNOME>".                                                     *)
(***************************************************************************)
SUCCESS_FACT == "__fact_table_success__"
SUCCESS_BOTH == "__both_table_success__"
COULD_NOT_PARSE == "__could_not_parse_xml__"
NONE == "None"
NO_NAME == "COULD_NOT_GET_NAME"

\* f"{prefix} {nametag.find('xNome').text.upper()}"
DisplayName(buyer, xnome) ==
    IF buyer
    THEN (IF xnome = "A" THEN "COMPRA A" ELSE "COMPRA B")
    ELSE (IF xnome = "A" THEN "VENDA A" ELSE "VENDA B")

DocNames == {NONE, NO_NAME, "COMPRA A", "COMPRA B", "VENDA A", "VENDA B"}

CacheNames == {SUCCESS_FACT, SUCCESS_BOTH, COULD_NOT_PARSE} \cup DocNames

FailNames == {COULD_NOT_PARSE} \cup DocNames

\* strip leading digits and punctuation, blanks to underscores, uppercase
fmt_tablename(name) ==
    CASE name = "COMPRA A" -> "COMPRA_A"
      [] name = "COMPRA B" -> "COMPRA_B"
      [] name = "VENDA A" -> "VENDA_A"
      [] name = "VENDA B" -> "VENDA_B"
      [] OTHER -> name

TableNames == {fmt_tablename(n) : n \in DocNames \ {NONE}}

(***************************************************************************)
(* parse.py: the parsers.  A parser is [INPUTS, doc, data, err]; err holds *)
(* the kinds of the recorded errors in order, data the row records.        *)
(***************************************************************************)
InitErr == "ParserInitError"
ParseErr == "ParserParseError"
ValidErr == "ParserValidationError"
AttrErr == "AttributeError"
StrErr == "str"

\* the values with the payment types and the payment amounts exchanged
FactValuesSwapped(doc) ==
    <<<<"Id", doc.key>>, <<"dhEmi", doc.body>>, <<"vPag", doc.body>>,
      <<"tPag", doc.body>>, <<"vNF", doc.body>>, <<"vDesc", doc.body>>,
      <<"vTotTrib", doc.body>>>>

\* FactRowElem.values: the values in the order of the parameters of __init__,
\* each one the content of a tag of the document (its name, and the body it
\* is read from)
FactValues(doc) ==
    <<<<"Id", doc.key>>, <<"dhEmi", doc.body>>, <<"tPag", doc.body>>,
      <<"vPag", doc.body>>, <<"vNF", doc.body>>, <<"vDesc", doc.body>>,
      <<"vTotTrib", doc.body>>>>

FactRow(doc) ==
    [kind |-> "fact", key |-> doc.key, body |-> doc.body, values |-> FactValues(doc)]

TransacRow(doc, item) == [kind |-> "line", key |-> doc.key, body |-> item]

\* F applied to the value of x
With(x, F(_)) == F(x)

AppendErr(p, e) == [p EXCEPT !.err = Append(@, e)]

erroed(p) == Len(p.err) > 0

\* BaseParser._parsed
Parsed(p) == erroed(p) \/ Len(p.data) > 0

\* BaseParser._get_name behind the name property: every access that raises
\* inside the try appends the exception to err and yields None.  An unreadable
\* file leaves self.xml the tuple (BeautifulSoup(),), whose .find raises.
GetName(p) ==
    LET tag == IF p.INPUTS.buy THEN p.doc.dest ELSE p.doc.emit
    IN  IF ~p.doc.readable \/ tag = "noxNome"
        THEN [p |-> AppendErr(p, AttrErr), name |-> NONE]
        ELSE IF tag = "absent"
        THEN [p |-> p, name |-> NO_NAME]
        ELSE [p |-> p, name |-> DisplayName(p.INPUTS.buy, tag)]

\* BaseParser.__init__ for a well-formed ParserInput: any exception out of
\* _get_metadata (open, decode) becomes one ParserInitError; otherwise
\* _get_metadata ends after one access of self.name.
BaseParserInit(parser_input, doc) ==
    LET p0 == [INPUTS |-> parser_input, doc |-> doc, data |-> <<>>, err |-> <<>>]
    IN  IF ~doc.readable THEN AppendErr(p0, InitErr) ELSE GetName(p0).p

\* bool(parser_input["buy"]) of a buy that is "True" or "False", a non-empty
\* str ("str") or None ("None")
Bool(buy) == buy \in {"True", "str"}

\* BaseParser.__init__ for any argument: raw.mapping tells a dict from
\* another object; raw.path is "missing" (no such key), "wrong type" (a
\* value Path() refuses) or a path; raw.buy is "missing" or a value for
\* Bool.  Path(parser_input["path"]) is evaluated before the buy key is
\* read, and the except TypeError clause does not return, so _get_metadata
\* runs and fails again.
BaseParserNew(raw, doc) ==
    With([INPUTS |-> raw, doc |-> doc, data |-> <<>>, err |-> <<>>], LAMBDA p0 :
        IF ~raw.mapping THEN AppendErr(p0, InitErr)
        ELSE IF raw.path = "missing" THEN AppendErr(p0, InitErr)
        ELSE IF raw.path = "wrong type" THEN AppendErr(AppendErr(p0, InitErr), InitErr)
        ELSE IF raw.buy = "missing" THEN AppendErr(p0, InitErr)
        ELSE BaseParserInit([path |-> raw.path, buy |-> Bool(raw.buy)], doc))

\* the encodings _get_metadata tries, in order
Encodings == <<"utf-8", "iso-8859-1">>

\* open(..., encoding=encoding).read() of a file whose bytes were written in
\* written: iso-8859-1 decodes every byte, utf-8 only its own text
Decodes(written, encoding) == encoding = "iso-8859-1" \/ written = "utf-8"

\* the loop of _get_metadata from the i-th encoding on: "opened", "none"
\* when the list is used up, or the exception that leaves the loop.  The
\* except clause names UnicodeEncodeError; a failed read raises
\* UnicodeDecodeError, which is no subclass of it.
RECURSIVE TryEncodings(_, _)
TryEncodings(written, i) ==
    IF i > Len(Encodings) THEN "none"
    ELSE IF Decodes(written, Encodings[i]) THEN "opened"
    ELSE IF "UnicodeDecodeError" = "UnicodeEncodeError" THEN TryEncodings(written, i + 1)
    ELSE "UnicodeDecodeError"

\* BaseParser.__init__ on a file whose bytes were written in written: an
\* exception out of _get_metadata becomes one ParserInitError
BaseParserOpen(raw, doc, written) ==
    IF /\ raw.mapping
       /\ raw.path \notin {"missing", "wrong type"}
       /\ raw.buy # "missing"
       /\ doc.readable
       /\ TryEncodings(written, 1) # "opened"
    THEN AppendErr([INPUTS |-> [path |-> raw.path, buy |-> Bool(raw.buy)],
                    doc |-> doc, data |-> <<>>, err |-> <<>>], InitErr)
    ELSE BaseParserNew(raw, doc)

\* BaseParser.doc_nfekey: None and one ParserParseError when no try finds a key
DocNfeKey(p) == IF p.doc.key = 0 THEN AppendErr(p, ParseErr) ELSE p

\* FactParser._get_dt
GetDt(p) == IF p.doc.dt = "ok" THEN p ELSE AppendErr(p, ParseErr)

\* FactParser._get_pay: its except clause appends a str, not an exception
GetPay(p) == IF p.doc.pay = "ok" THEN p ELSE AppendErr(p, StrErr)

\* FactParser._get_total: only a missing ICMSTot is an error here
GetTotal(p) == IF p.doc.total = "missing" THEN AppendErr(p, ParseErr) ELSE p

\* FactParser._get_fact_rows: [p, rows, none]; none stands for returning None
GetFactRows(p) ==
    LET p4 == GetTotal(GetPay(GetDt(DocNfeKey(p))))
        anyNone == p.doc.key = 0 \/ p.doc.dt # "ok" \/ p.doc.pay # "ok"
                   \/ p.doc.total = "missing"
    IN  IF anyNone
        THEN [p |-> AppendErr(p4, ParseErr), rows |-> <<>>, none |-> TRUE]
        ELSE IF p.doc.total = "badvalue"
        THEN [p |-> AppendErr(p4, ValidErr), rows |-> <<>>, none |-> TRUE]
        ELSE [p |-> p4, rows |-> <<FactRow(p.doc)>>, none |-> FALSE]

\* _TransacParser._get_transac_rows: one row per <det>, zip-aligned
GetTransacRows(p) ==
    LET p1 == DocNfeKey(p)
        p2 == IF p.doc.det = "ok" THEN p1 ELSE AppendErr(p1, ParseErr)
        anyNone == p.doc.key = 0 \/ p.doc.det # "ok"
    IN  IF anyNone
        THEN [p |-> AppendErr(p2, ParseErr), rows |-> <<>>, none |-> TRUE]
        ELSE [p |-> p2,
              rows |-> [i \in 1..Len(p.doc.items) |-> TransacRow(p.doc, p.doc.items[i])],
              none |-> FALSE]

\* self.data = self.data + rows, unless the rows are None
ExtendData(r, p) == IF r.none THEN r.p ELSE [r.p EXCEPT !.data = p.data \o r.rows]

\* FactParser.parse
FactParse(p) == IF Parsed(p) THEN p ELSE ExtendData(GetFactRows(p), p)

\* FullParser.parse: fact rows first, then the line rows; either may be None
FullParse(p) ==
    IF Parsed(p) THEN p
    ELSE With(ExtendData(GetFactRows(p), p),
              LAMBDA p1 : ExtendData(GetTransacRows(p1), p1))

\* parser.parse() raises: FullParser.parse reaches _get_transac_rows, whose
\* open() and read() of the file stand outside every try
ParseRaises(p, full_parse) == full_parse /\ ~Parsed(p) /\ p.doc.reread = "raises"

\* parser.parse() of the class ParserManipulator._get_parser chose
Parse(p, full_parse) == IF full_parse THEN FullParse(p) ELSE FactParse(p)

(***************************************************************************)
(* parse.py: data validation.  A str is the sequence of its characters,    *)
(* each a one-character string; "LF" stands for the newline character and  *)
(* "S2" for SUPERSCRIPT TWO, a character str.isdigit accepts and \d does   *)
(* not.  A Python value is [type, text] (text: the characters of a str),   *)
(* or [type, num] for a number.                                            *)
(***************************************************************************)
NoExc == "none"

Range(s) == {s[i] : i \in 1..Len(s)}

\* the characters 0 .. 9, by value
DigitChars == <<"0", "1", "2", "3", "4", "5", "6", "7", "8", "9">>

\* \d, on the characters used here
IsDecimal(ch) == ch \in Range(DigitChars)

\* str.isdigit on one character
IsDigit(ch) == IsDecimal(ch) \/ ch = "S2"

\* s.replace(old, "")
RECURSIVE Remove(_, _)
Remove(s, old) ==
    IF s = <<>> THEN <<>>
    ELSE IF Head(s) = old THEN Remove(Tail(s), old)
    ELSE <<Head(s)>> \o Remove(Tail(s), old)

\* s.replace(old, new), one character for one character
Replace(s, old, new) == [i \in 1..Len(s) |-> IF s[i] = old THEN new ELSE s[i]]

\* s.split(";"): the pieces between the semicolons, empty ones included
RECURSIVE Split(_, _)
Split(s, piece) ==
    IF s = <<>> THEN <<piece>>
    ELSE IF Head(s) = ";" THEN <<piece>> \o Split(Tail(s), <<>>)
    ELSE Split(Tail(s), Append(piece, Head(s)))

\* re.match of ^(\d+(\.\d+)?)(;(\d+(\.\d+)?))*$ as an automaton over the
\* characters; q is "start" (a number must begin), "int" (in the digits of
\* the whole part), "dot" (after the point), "frac" (in the decimals) or
\* "end" (after the newline that $ lets be the last character)
RECURSIVE MatchFrom(_, _)
MatchFrom(s, q) ==
    IF s = <<>> THEN q \in {"int", "frac", "end"}
    ELSE IF q \in {"start", "dot"}
    THEN IsDecimal(Head(s)) /\ MatchFrom(Tail(s), IF q = "start" THEN "int" ELSE "frac")
    ELSE IF q = "end" THEN FALSE
    ELSE IF IsDecimal(Head(s)) THEN MatchFrom(Tail(s), q)
    ELSE IF Head(s) = ";" THEN MatchFrom(Tail(s), "start")
    ELSE IF Head(s) = "." /\ q = "int" THEN MatchFrom(Tail(s), "dot")
    ELSE IF Head(s) = "LF" THEN MatchFrom(Tail(s), "end")
    ELSE FALSE

\* valid_list_of_numbers on the characters of a str
ValidListOfNumbers(val) ==
    With(Remove(val, " "), LAMBDA v :
        IF ~MatchFrom(v, "start") THEN FALSE
        ELSE IF v[1] = ";" \/ v[Len(v)] = ";" THEN FALSE
        ELSE TRUE)

\* the length a fiscal key must have
KeyLen == 44

\* valid_key
ValidKey(val) ==
    /\ val.type = "str"
    /\ Len(val.text) = KeyLen
    /\ \A i \in 1..Len(val.text) : IsDigit(val.text[i])

\* str() of a non-negative int
RECURSIVE StrInt(_)
StrInt(n) ==
    IF n < 10 THEN <<DigitChars[n + 1]>>
    ELSE StrInt(n \div 10) \o <<DigitChars[(n % 10) + 1]>>

\* str() of a number x = [type, num, frac]: an int, or a float with one
\* decimal
StrNum(x) ==
    IF x.type = "int" THEN StrInt(x.num)
    ELSE StrInt(x.num) \o <<".">> \o StrInt(x.frac)

\* float(x) of an int or a float
ToFloat(x) == [type |-> "float", num |-> x.num, frac |-> x.frac]

\* str() of a list: "[" + ", ".join(...) + "]"
RECURSIVE StrItems(_)
StrItems(xs) ==
    IF xs = <<>> THEN <<>>
    ELSE IF Len(xs) = 1 THEN StrNum(xs[1])
    ELSE StrNum(xs[1]) \o <<",", " ">> \o StrItems(Tail(xs))

StrList(xs) == <<"[">> \o StrItems(xs) \o <<"]">>

\* the separator left as str() wrote it
KeepCommas(text) == text

\* .replace(",", ";")
CommasToSemicolons(text) == Replace(text, ",", ";")

\* convert_to_list_of_numbers of inp = [islist, elems]; a lone number is
\* [islist |-> FALSE, elems |-> <<x>>]
ConvertToListOfNumbers(inp) ==
    With(IF ~inp.islist THEN StrNum(inp.elems[1])
         ELSE IF \E i \in 1..Len(inp.elems) : inp.elems[i].type = "float"
         THEN StrList([i \in 1..Len(inp.elems) |-> ToFloat(inp.elems[i])])
         ELSE StrList(inp.elems),
         LAMBDA text :
             Remove(Remove(Remove(CommasToSemicolons(text), " "), "["), "]"))

\* the value of the decimal digits of s
RECURSIVE DigitsValue(_, _)
DigitsValue(s, acc) ==
    IF s = <<>> THEN acc
    ELSE DigitsValue(Tail(s),
                     10 * acc + (CHOOSE d \in 0..9 : DigitChars[d + 1] = Head(s)))

AllDecimal(s) == s # <<>> /\ \A i \in 1..Len(s) : IsDecimal(s[i])

\* what int() and float() give for a text that is not a number: the
\* ValueError they raise
NotANumber == [type |-> "ValueError", num |-> 0, frac |-> 0]

\* int(s)
ParseInt(s) ==
    IF AllDecimal(s) THEN [type |-> "int", num |-> DigitsValue(s, 0), frac |-> 0]
    ELSE NotANumber

\* float(s) for digits with at most one point and one decimal
ParseFloat(s) ==
    IF AllDecimal(s) THEN [type |-> "float", num |-> DigitsValue(s, 0), frac |-> 0]
    ELSE IF /\ Len(s) >= 3
            /\ s[Len(s) - 1] = "."
            /\ AllDecimal(SubSeq(s, 1, Len(s) - 2))
            /\ IsDecimal(s[Len(s)])
    THEN [type |-> "float", num |-> DigitsValue(SubSeq(s, 1, Len(s) - 2), 0),
          frac |-> DigitsValue(<<s[Len(s)]>>, 0)]
    ELSE NotANumber

\* convert_from_list_of_numbers: [exc, nums], the exception raised and the
\* list returned
ConvertFromListOfNumbers(inp) ==
    With(Split(Remove(Remove(inp, "["), "]"), <<>>), LAMBDA nums_list :
    With([i \in 1..Len(nums_list) |->
              IF "." \in Range(inp) THEN ParseFloat(nums_list[i])
              ELSE ParseInt(nums_list[i])], LAMBDA out :
        IF \E i \in 1..Len(out) : out[i] = NotANumber
        THEN [exc |-> "ValueError", nums |-> <<>>]
        ELSE [exc |-> NoExc, nums |-> out]))

\* valid_float on a Python value: "TypeError" when float() raises it
ValidFloat(val) ==
    IF val.type \in {"int", "float"} THEN "True"
    ELSE IF val.type # "str" THEN "TypeError"
    ELSE IF ParseFloat(val.text) = NotANumber THEN "False"
    ELSE "True"

\* the fields of FactRowElem, in the order of the parameters of __init__,
\* and the annotation of each
FactFields ==
    <<"ChaveNFe", "DataHoraEmi", "PagamentoTipo", "PagamentoValor",
      "TotalProdutos", "TotalDesconto", "TotalTributos">>

FieldType(name) ==
    CASE name = "ChaveNFe" -> "KeyType"
      [] name = "DataHoraEmi" -> "datetime"
      [] name \in {"PagamentoTipo", "PagamentoValor"} -> "ListOfNumbersType"
      [] OTHER -> "FloatCoercibleType"

\* one turn of the loop of _validate_and_assign: "ok", or the exception
\* that leaves the constructor
ValidateField(name, val) ==
    CASE FieldType(name) = "KeyType" ->
             IF ValidKey(val) THEN "ok" ELSE "ValueError"
      [] FieldType(name) = "datetime" ->
             IF val.type = "datetime" THEN "ok" ELSE "ValueError"
      [] FieldType(name) = "ListOfNumbersType" ->
             IF val.type # "str" THEN "AttributeError"
             ELSE IF ValidListOfNumbers(val.text) THEN "ok" ELSE "ValueError"
      [] OTHER ->
             IF ValidFloat(val) = "TypeError" THEN "TypeError"
             ELSE IF ValidFloat(val) = "True" THEN "ok" ELSE "ValueError"

\* the value _validate_and_assign appends for a field that passed
StoredValue(name, val) ==
    CASE FieldType(name) = "datetime" -> [type |-> "str", of |-> <<"strftime", val>>]
      [] FieldType(name) = "FloatCoercibleType" -> [type |-> "float", of |-> <<"float", val>>]
      [] OTHER -> [type |-> "str", of |-> <<"same", val>>]

\* the tuple of a construction in which every field passed
Values(kwargs) ==
    [i \in 1..Len(FactFields) |-> StoredValue(FactFields[i], kwargs[FactFields[i]])]

\* FactRowElem(**kwargs): [exc, values]; the loop stops at the first field
\* that does not pass, and an exception leaves no object behind
FactRowElemInit(kwargs) ==
    IF \A i \in 1..Len(FactFields) : ValidateField(FactFields[i], kwargs[FactFields[i]]) = "ok"
    THEN [exc |-> NoExc, values |-> Values(kwargs)]
    ELSE [exc |-> ValidateField(
                      FactFields[CHOOSE i \in 1..Len(FactFields) :
                          /\ ValidateField(FactFields[i], kwargs[FactFields[i]]) # "ok"
                          /\ \A j \in 1..(i - 1) :
                                 ValidateField(FactFields[j], kwargs[FactFields[j]]) = "ok"],
                      kwargs[FactFields[CHOOSE i \in 1..Len(FactFields) :
                          /\ ValidateField(FactFields[i], kwargs[FactFields[i]]) # "ok"
                          /\ \A j \in 1..(i - 1) :
                                 ValidateField(FactFields[j], kwargs[FactFields[j]]) = "ok"]]),
          values |-> <<>>]

(***************************************************************************)
(* The evaluation context of one call: the durable state it acts on        *)
(* (cache: the partition files, db: the tables), the parser p it works on, *)
(* the manipulator man, and exc, the exception in flight.  fuel is the     *)
(* number of durable writes the call completes before the user's           *)
(* KeyboardInterrupt arrives; ins collects the rows the call inserted.      *)
(***************************************************************************)
\* a membership test that never finds the item (as a comparison by identity
\* of inputs loaded from a file would)
InNever(item, list) == FALSE

\* Python's `item in list`
In(item, list) == item \in Range(list)

\* `ParserInitError in parser.err`: the class object is compared with the
\* exception instances the list holds, and equals none of them
ClassInList(cls, err) == FALSE

Raise(c, e) == IF c.exc # NoExc THEN c ELSE [c EXCEPT !.exc = e]

Tick(c) ==
    IF c.exc # NoExc THEN c
    ELSE IF c.fuel = 0 THEN [c EXCEPT !.exc = "KeyboardInterrupt"]
    ELSE [c EXCEPT !.fuel = @ - 1]

(***************************************************************************)
(* cache.py: CacheHandler.  A handler is [cachefile, data]; the file is    *)
(* c.cache[cachefile].  A missing file loads as the empty list.            *)
(***************************************************************************)
\* CacheHandler.__init__: full_parse only prefixes the cachename attribute;
\* the file path is built from the cachename argument
CacheFile(cachename, full_parse) == cachename

\* a handler that starts with an empty list whatever the file holds
CacheHandlerUnloaded(c, cachename, full_parse) ==
    [cachefile |-> CacheFile(cachename, full_parse), data |-> <<>>]

\* CacheHandler.__init__: the list is loaded from the file
CacheHandler(c, cachename, full_parse) ==
    [cachefile |-> CacheFile(cachename, full_parse),
     data |-> c.cache[CacheFile(cachename, full_parse)]]

\* one durable write of content to file f
Put(c, f, content) ==
    With(Tick(c), LAMBDA c1 :
        IF c1.exc # NoExc THEN c1 ELSE [c1 EXCEPT !.cache[f] = content])

\* open(cachefile, "wb") truncates the file, pickle.dump then writes the list
WriteFile(c, f, content) == Put(Put(c, f, <<>>), f, content)

\* CacheHandler._heal
Heal(c, h) ==
    LET file == c.cache[h.cachefile]
        size_diff == Len(file) - Len(h.data)
    IN  IF size_diff = 0 THEN [c |-> c, h |-> h]
        ELSE IF size_diff < 0
        THEN [c |-> WriteFile(c, h.cachefile, h.data), h |-> h]
        ELSE [c |-> c, h |-> [h EXCEPT !.data = file]]

\* a dump of the new item alone
AddDumpItemOnly(data, item) == <<item>>

\* the list add dumps: self.data + [item]
AddDump(data, item) == Append(data, item)

\* add without the test of line 220
HandlerAddUnchecked(c, h, item) ==
    IF c.exc # NoExc THEN [c |-> c, h |-> h]
    ELSE With(Heal(c, h), LAMBDA r :
         With(WriteFile(r.c, h.cachefile, AddDump(r.h.data, item)), LAMBDA w :
             [c |-> w,
              h |-> IF w.exc # NoExc THEN r.h
                    ELSE [r.h EXCEPT !.data = w.cache[h.cachefile]]]))

\* CacheHandler.add
HandlerAdd(c, h, item) ==
    IF c.exc # NoExc THEN [c |-> c, h |-> h]
    ELSE IF In(item, c.cache[h.cachefile])
    THEN [c |-> Raise(c, "KeyAlreadyProcessedError"), h |-> h]
    ELSE With(Heal(c, h), LAMBDA r :
         With(WriteFile(r.c, h.cachefile, AddDump(r.h.data, item)), LAMBDA w :
             [c |-> w,
              h |-> IF w.exc # NoExc THEN r.h
                    ELSE [r.h EXCEPT !.data = w.cache[h.cachefile]]]))

\* the item popped and the rest turned around
RemoveAndReverse(list, item) ==
    LET idx == CHOOSE i \in 1..Len(list) :
                   list[i] = item /\ \A j \in 1..(i - 1) : list[j] # item
        rest == SubSeq(list, 1, idx - 1) \o SubSeq(list, idx + 1, Len(list))
    IN  [k \in 1..Len(rest) |-> rest[Len(rest) + 1 - k]]

\* list.pop(list.index(item))
RemoveFirst(list, item) ==
    LET idx == CHOOSE i \in 1..Len(list) :
                   list[i] = item /\ \A j \in 1..(i - 1) : list[j] # item
    IN  SubSeq(list, 1, idx - 1) \o SubSeq(list, idx + 1, Len(list))

\* rm without the test of line 229
HandlerRmUnchecked(c, h, item) ==
    IF c.exc # NoExc THEN [c |-> c, h |-> h]
    ELSE With(Heal(c, h), LAMBDA r :
         With(Put(r.c, h.cachefile, <<>>), LAMBDA c2 :
             IF c2.exc # NoExc THEN [c |-> c2, h |-> r.h]
             ELSE IF ~In(item, r.h.data)
             THEN [c |-> Raise(c2, "ValueError"), h |-> r.h]
             ELSE With(Put(c2, h.cachefile, RemoveFirst(r.h.data, item)), LAMBDA w :
                      [c |-> w, h |-> [r.h EXCEPT !.data = w.cache[h.cachefile]]])))

\* CacheHandler.rm: the file is opened for writing (truncated) before the
\* item is popped from the list and the list dumped
HandlerRm(c, h, item) ==
    IF c.exc # NoExc THEN [c |-> c, h |-> h]
    ELSE IF ~In(item, h.data)
    THEN [c |-> Raise(c, "KeyNotFoundError"), h |-> h]
    ELSE With(Heal(c, h), LAMBDA r :
         With(Put(r.c, h.cachefile, <<>>), LAMBDA c2 :
             IF c2.exc # NoExc THEN [c |-> c2, h |-> r.h]
             ELSE IF ~In(item, r.h.data)
             THEN [c |-> Raise(c2, "ValueError"), h |-> r.h]
             ELSE With(Put(c2, h.cachefile, RemoveFirst(r.h.data, item)), LAMBDA w :
                      [c |-> w,
                       h |-> [r.h EXCEPT !.data = IF w.exc # NoExc
                                                  THEN RemoveFirst(r.h.data, item)
                                                  ELSE w.cache[h.cachefile]]])))

\* the tests of _first_invalid_elem on one element
InvalidElem(elem) ==
    \/ elem.type # "dict"
    \/ elem.path = "absent" \/ elem.buy = "absent"
    \/ elem.path # "str"
    \/ elem.buy # "bool"

\* CacheHandler._first_invalid_elem: the element itself, or None
FirstInvalidElem(elems) ==
    IF \A i \in 1..Len(elems) : ~InvalidElem(elems[i]) THEN PyNone
    ELSE elems[CHOOSE i \in 1..Len(elems) :
                   InvalidElem(elems[i]) /\ \A j \in 1..(i - 1) : ~InvalidElem(elems[j])]

\* CacheHandler.is_valid
IsValid(data) ==
    IF ~data.islist THEN FALSE
    ELSE IF Truthy(FirstInvalidElem(data.elems)) THEN FALSE
    ELSE TRUE

\* _get_success_cachename
GetSuccessCachename(full_parse) == IF full_parse THEN SUCCESS_BOTH ELSE SUCCESS_FACT

(***************************************************************************)
(* db.py: the tables.  c.db.fact[t] is table t, c.db.line[t] is table      *)
(* ITENS_t, each the rows in insertion order.  A table that does not exist *)
(* answers the existence queries as an empty one (OperationalError ->      *)
(* False) and is created by the first insert.                              *)
(***************************************************************************)
\* a comparison that never matches
HoldsKeyNever(rows, key) == FALSE

\* ChaveNFe = key matches a row of the table
HoldsKey(rows, key) == \E i \in 1..Len(rows) : rows[i].key = key

\* a lookup that never finds the key
FactRowExistsNever(c, row, t) == FALSE

\* fact_row_exists: SELECT count(*) ... WHERE ChaveNFe=?
FactRowExists(c, row, t) == HoldsKey(c.db.fact[t], row.key)

\* transac_row_exists: every column compared
TransacRowExists(c, row, t) ==
    \E i \in 1..Len(c.db.line[t]) : c.db.line[t][i] = row

\* the columns of the INSERT statement of insert_fact_row
FactColumns ==
    <<"ChaveNFe", "DataHoraEmi", "PagamentoTipo", "PagamentoValor",
      "TotalProdutos", "TotalDesconto", "TotalTributos">>

\* VALUES (?,?,?,?,?,?,?) with row.values: the i-th value goes to the i-th
\* column
StoredFactRow(row) ==
    [kind |-> row.kind, key |-> row.key, body |-> row.body,
     cols |-> [col \in Range(FactColumns) |->
                  row.values[CHOOSE i \in 1..Len(FactColumns) : FactColumns[i] = col]]]

\* the UNIQUE constraint on ChaveNFe of create_fact_table: the table holds
\* the key of the row
KeyInTable(c, row, t) == HoldsKey(c.db.fact[t], row.key)

\* insert_fact_row: ChaveNFe is UNIQUE in the fact table; commits
InsertFactRow(c, row, t) ==
    With(Tick(c), LAMBDA c1 :
        IF c1.exc # NoExc THEN c1
        ELSE IF KeyInTable(c1, row, t) THEN Raise(c1, "IntegrityError")
        ELSE [c1 EXCEPT !.db.fact[t] = Append(@, StoredFactRow(row)),
                        !.ins = Append(@, StoredFactRow(row))])

\* insert_transac_row: the foreign key is declared, sqlite does not enforce it
\* (no PRAGMA foreign_keys); commits
InsertTransacRow(c, row, t) ==
    With(Tick(c), LAMBDA c1 :
        IF c1.exc # NoExc THEN c1
        ELSE [c1 EXCEPT !.db.line[t] = Append(@, row), !.ins = Append(@, row)])

RowExists(c, row, t) ==
    IF row.kind = "fact" THEN FactRowExists(c, row, t) ELSE TransacRowExists(c, row, t)

\* the body of the loop of insert_rows
InsertRowIfNew(c, row, t) ==
    IF c.exc # NoExc \/ RowExists(c, row, t) THEN c
    ELSE IF row.kind = "fact" THEN InsertFactRow(c, row, t)
    ELSE InsertTransacRow(c, row, t)

RECURSIVE InsertFrom(_, _, _)
InsertFrom(c, t, i) ==
    IF i > Len(c.p.data) THEN c
    ELSE InsertFrom(InsertRowIfNew(c, c.p.data[i], t), t, i + 1)

\* the name property read on the context's parser
ReadName(c) ==
    With(GetName(c.p), LAMBDA n : [c |-> [c EXCEPT !.p = n.p], name |-> n.name])

\* insert_rows: the rows of parser.data in order, each committed on its own
InsertRows(c) ==
    IF c.exc # NoExc THEN c
    ELSE With(ReadName(c), LAMBDA n :
             IF n.name = NONE THEN Raise(n.c, "TypeError")
             ELSE InsertFrom(n.c, fmt_tablename(n.name), 1))

\* all_rows_in_db: [c, res]; True for a parser without data
AllRowsInDb(c) ==
    IF c.exc # NoExc \/ Len(c.p.data) = 0 THEN [c |-> c, res |-> TRUE]
    ELSE With(ReadName(c), LAMBDA n :
             IF n.name = NONE THEN [c |-> Raise(n.c, "TypeError"), res |-> FALSE]
             ELSE [c |-> n.c,
                   res |-> \A i \in 1..Len(c.p.data) :
                               RowExists(n.c, c.p.data[i], fmt_tablename(n.name))])

(***************************************************************************)
(* cache.py: the module functions and ParserManipulator.                   *)
(***************************************************************************)
\* ParserManipulator.__init__
ParserManipulatorInit(full_parse) ==
    [full_parse |-> full_parse, n_parsed |-> 0, n_failed |-> 0,
     n_skipped |-> 0, n_recovered |-> 0]

\* handler.add(item) unless the handler's list holds the item
AddIfAbsent(c, h, item) == IF ~In(item, h.data) THEN HandlerAdd(c, h, item).c ELSE c

\* handler.rm(item) if the handler's list holds the item
RmIfPresent(c, h, item) == IF In(item, h.data) THEN HandlerRm(c, h, item).c ELSE c

\* _save_failed_parser_init
SaveFailedParserInit(c) ==
    IF c.exc # NoExc \/ ~ClassInList(InitErr, c.p.err) THEN c
    ELSE AddIfAbsent(c, CacheHandler(c, COULD_NOT_PARSE, c.man.full_parse), c.p.INPUTS)

\* _save_successfull_fileparse
SaveSuccessfullFileparse(c) ==
    IF c.exc # NoExc \/ ~Parsed(c.p) THEN c
    ELSE AddIfAbsent(c, CacheHandler(c, GetSuccessCachename(c.man.full_parse),
                                     c.man.full_parse), c.p.INPUTS)

\* the except branch without its membership test: add() on every failure
SaveFailedParseUnguarded(c) ==
    IF ~erroed(c.p) THEN c
    ELSE With(ReadName(c), LAMBDA n :
             HandlerAdd(n.c, CacheHandler(n.c, n.name, c.man.full_parse), c.p.INPUTS).c)

\* the except branch of _test_return_parser after parser.parse()
SaveFailedParse(c) ==
    IF ~erroed(c.p) THEN c
    ELSE With(ReadName(c), LAMBDA n :
             AddIfAbsent(n.c, CacheHandler(n.c, n.name, c.man.full_parse), c.p.INPUTS))

\* ParserManipulator._test_return_parser
TestReturnParser(c, parser_input, doc) ==
    With([c EXCEPT !.p = BaseParserInit(parser_input, doc)], LAMBDA c0 :
        IF erroed(c0.p) THEN SaveFailedParserInit(c0)
        ELSE IF ParseRaises(c0.p, c.man.full_parse)
        THEN Raise([c0 EXCEPT !.p = GetFactRows(c0.p).p], "UnicodeDecodeError")
        ELSE SaveFailedParse([c0 EXCEPT !.p = Parse(c0.p, c.man.full_parse)]))

\* ParserManipulator._get_cache_handlers: [c, init, parse]
GetCacheHandlers(c) ==
    With(ReadName(c), LAMBDA n :
        [c |-> n.c,
         init |-> CacheHandler(n.c, COULD_NOT_PARSE, c.man.full_parse),
         parse |-> CacheHandler(n.c, n.name, c.man.full_parse)])

\* ParserManipulator._remove_successful_parser_from_cache
RemoveSuccessfulParserFromCache(c) ==
    IF c.exc # NoExc THEN c
    ELSE IF Len(c.p.err) > 0 \/ Len(c.p.data) = 0
    THEN [c EXCEPT !.man.n_recovered = @ + 1]
    ELSE With(GetCacheHandlers([c EXCEPT !.man.n_recovered = @ + 1]), LAMBDA g :
             RmIfPresent(RmIfPresent(g.c, g.init, c.p.INPUTS), g.parse, c.p.INPUTS))

\* ParserManipulator._add_failed_parser_to_cache
AddFailedParserToCache(c) ==
    IF c.exc # NoExc THEN c
    ELSE IF Len(c.p.err) = 0 \/ Len(c.p.data) > 0
    THEN [c EXCEPT !.man.n_failed = @ + 1]
    ELSE With(GetCacheHandlers([c EXCEPT !.man.n_failed = @ + 1]), LAMBDA g :
         With(IF InitErr \in Range(g.c.p.err)
              THEN AddIfAbsent(g.c, g.init, c.p.INPUTS)
              ELSE g.c, LAMBDA c2 :
             IF \E e \in Range(g.c.p.err) : e # InitErr
             THEN AddIfAbsent(c2, g.parse, c.p.INPUTS)
             ELSE c2))

\* ParserManipulator._handle_cache_registry
HandleCacheRegistry(c) ==
    IF c.exc # NoExc THEN c
    ELSE With(GetCacheHandlers(c), LAMBDA g :
             IF In(c.p.INPUTS, g.init.data) \/ In(c.p.INPUTS, g.parse.data)
             THEN RemoveSuccessfulParserFromCache(g.c)
             ELSE AddFailedParserToCache(g.c))

\* ParserManipulator._handle_parser_success
HandleParserSuccess(c) ==
    RemoveSuccessfulParserFromCache(SaveSuccessfullFileparse(InsertRows(c)))

\* add_parser after the parser is returned and counted
StoreOrSkip(c) ==
    With(AllRowsInDb(c), LAMBDA a :
        IF a.c.exc # NoExc THEN a.c
        ELSE IF a.res THEN [a.c EXCEPT !.man.n_skipped = @ + 1]
        ELSE HandleParserSuccess(a.c))

\* ParserManipulator.add_parser
AddParser(c, parser_input, doc) ==
    With(TestReturnParser(c, parser_input, doc), LAMBDA c1 :
        IF c1.exc # NoExc THEN c1
        ELSE IF erroed(c1.p)
        THEN StoreOrSkip(HandleCacheRegistry([c1 EXCEPT !.man.n_parsed = @ + 1]))
        ELSE StoreOrSkip([c1 EXCEPT !.man.n_parsed = @ + 1]))

\* get_not_processed_inputs: the inputs of filepaths, in order, that are not
\* in the lists loaded when the function is called
RECURSIVE SelectSeq2(_, _)
SelectSeq2(s, ignore) ==
    IF s = <<>> THEN <<>>
    ELSE IF In(Head(s), ignore) THEN SelectSeq2(Tail(s), ignore)
    ELSE <<Head(s)>> \o SelectSeq2(Tail(s), ignore)

\* every file of the directory, whatever the partitions hold
GetAllInputs(cacheFiles, filepaths, buy, ignore_fails, full_parse) ==
    [i \in 1..Len(filepaths) |-> [path |-> filepaths[i], buy |-> buy]]

GetNotProcessedInputs(cacheFiles, filepaths, buy, ignore_fails, full_parse) ==
    LET success == cacheFiles[CacheFile(GetSuccessCachename(full_parse), full_parse)]
        ignore_data == IF ignore_fails
                       THEN success \o cacheFiles[CacheFile(COULD_NOT_PARSE, full_parse)]
                       ELSE success
        inputs == [i \in 1..Len(filepaths) |-> [path |-> filepaths[i], buy |-> buy]]
    IN  SelectSeq2(inputs, ignore_data)

\* xml_files_in_dir: os.listdir of the directory
XmlFilesInDir == <<"a.xml", "b.xml">>

(***************************************************************************)
(* State.                                                                  *)
(*   files   the content of each file of the directory                     *)
(*   cache   the partition files, by cache name                            *)
(*   db      the sqlite tables                                             *)
(*   run     the batch in progress (api.parse_dir / api.parse_cache): its  *)
(*           arguments, the inputs still to iterate, its manipulator; and  *)
(*           history: done (the inputs whose rows this run stored),        *)
(*           inserted (rows inserted by this run), repeat (this run        *)
(*           repeats the previous parse_dir on the unchanged directory)    *)
(*   last    history of the most recent add_parser call: its input, mode,  *)
(*           parser and exception, the rows it inserted (ins) and would    *)
(*           have inserted uninterrupted (want), the partitions that       *)
(*           listed the input before it (preFail, preSucc), the            *)
(*           manipulator after it and its n_failed before it (failed0)     *)
(*   prev    history of the most recent completed parse_dir run: its       *)
(*           arguments and the partitions it left; when it repeated the    *)
(*           run before it (repDone), whether it left the partitions as    *)
(*           it found them (repSame) and the rows it inserted              *)
(*   budget  how many edits, direct calls and runs happened                *)
(*   handler a CacheHandler object that lives across calls: its list in    *)
(*           memory (data), and history: the number of operations on its   *)
(*           file (n), the last one (op, item, exc), the file and the      *)
(*           list before it (file0, data0), and the list that adding and   *)
(*           removing in order gives (expect) while no one else touched    *)
(*           the file (clean)                                              *)
(*   probe   a handler whose data attribute was assigned directly, and     *)
(*           what is_valid returned for it (result, once asked)            *)
(***************************************************************************)
VARIABLES files, cache, db, run, last, prev, budget, handler, probe, calc

vars == <<files, cache, db, run, last, prev, budget, handler, probe, calc>>

NoInput == [path |-> "", buy |-> FALSE]

NoParser == [INPUTS |-> NoInput, doc |-> DocGood, data |-> <<>>, err |-> <<>>]

Idle ==
    [kind |-> "idle", buy |-> FALSE, full_parse |-> FALSE, ignore |-> FALSE,
     cachename |-> NONE, todo |-> <<>>, man |-> ParserManipulatorInit(FALSE),
     done |-> {}, inserted |-> 0, repeat |-> FALSE,
     seen |-> <<>>, cache0 |-> [n \in CacheNames |-> <<>>]]

NoCall ==
    [called |-> FALSE, inp |-> NoInput, full_parse |-> FALSE, p |-> NoParser,
     exc |-> NoExc, ins |-> <<>>, want |-> <<>>, preFail |-> {}, preSucc |-> FALSE,
     man |-> ParserManipulatorInit(FALSE), batch |-> FALSE, done |-> {},
     kind |-> "idle", cachename |-> NONE, failed0 |-> 0, preStored |-> FALSE,
     preInTable |-> FALSE, skipped0 |-> 0, recovered0 |-> 0, modes |-> {},
     rest |-> <<>>,
     cache0 |-> [n \in CacheNames |-> <<>>],
     wantCache |-> [n \in CacheNames |-> <<>>],
     db0 |-> [fact |-> [t \in TableNames |-> <<>>], line |-> [t \in TableNames |-> <<>>]]]

NoPrev ==
    [valid |-> FALSE, buy |-> FALSE, full_parse |-> FALSE, ignore |-> FALSE,
     cache |-> [n \in CacheNames |-> <<>>],
     repDone |-> FALSE, repSame |-> TRUE, repInserted |-> 0, repParsed |-> 0]

\* the cachename of the long-lived handler
HandlerName == COULD_NOT_PARSE

\* CacheHandler(HandlerName) on an empty cache directory, nothing done yet
NoHandler ==
    [data |-> <<>>, n |-> 0, op |-> "none", item |-> NoInput, exc |-> NoExc,
     file0 |-> <<>>, data0 |-> <<>>, expect |-> <<>>, clean |-> TRUE]

\* no function of parse.py called yet on its own
NoCalc == [fn |-> "none", arg |-> <<>>, out |-> <<>>, src |-> <<>>, done |-> FALSE]

\* a handler of an empty partition, is_valid not called
NoProbe == [data |-> [islist |-> TRUE, elems |-> <<>>], asked |-> FALSE, result |-> FALSE]

\* everything but calc
InitDurable ==
    /\ handler = NoHandler
    /\ probe = NoProbe
    /\ files \in [Paths -> Docs]
    /\ cache = [n \in CacheNames |-> <<>>]
    /\ db = [fact |-> [t \in TableNames |-> <<>>], line |-> [t \in TableNames |-> <<>>]]
    /\ run = Idle
    /\ last = NoCall
    /\ prev = NoPrev
    /\ budget = [edits |-> 0, calls |-> 0, runs |-> 0]

Init == InitDurable /\ calc = NoCalc

\* the context of an add_parser call on manipulator man, cut after fuel writes
Ctx(man, fuel) ==
    [cache |-> cache, db |-> db, p |-> NoParser, man |-> man, fuel |-> fuel,
     exc |-> NoExc, ins |-> <<>>]

\* man.add_parser(parser_input) on the current state
Called(man, parser_input, fuel) == AddParser(Ctx(man, fuel), parser_input, files[parser_input.path])

\* the name of the document of parser_input as the file holds it now
PreName(parser_input) ==
    GetName([INPUTS |-> parser_input, doc |-> files[parser_input.path],
             data |-> <<>>, err |-> <<>>]).name

\* the table of that name holds a fact row with the key of the document
PreInTable(parser_input) ==
    /\ PreName(parser_input) # NONE
    /\ \E i \in 1..Len(db.fact[fmt_tablename(PreName(parser_input))]) :
           db.fact[fmt_tablename(PreName(parser_input))][i].key
               = files[parser_input.path].key

\* the history record of a call with result c
LastOf(c, parser_input, full_parse, batch, done) ==
    [called |-> TRUE, inp |-> parser_input, full_parse |-> full_parse, p |-> c.p,
     exc |-> c.exc, ins |-> c.ins,
     want |-> Called(ParserManipulatorInit(full_parse), parser_input, MaxWrites).ins,
     preFail |-> {n \in FailNames : parser_input \in Range(cache[n])},
     preSucc |-> parser_input \in Range(cache[GetSuccessCachename(full_parse)]),
     man |-> c.man, batch |-> batch, done |-> done,
     kind |-> run.kind, cachename |-> run.cachename,
     failed0 |-> run.man.n_failed,
     preStored |-> \E t \in TableNames : \E i \in 1..Len(db.fact[t]) :
                       db.fact[t][i].key = files[parser_input.path].key,
     preInTable |-> PreInTable(parser_input),
     skipped0 |-> run.man.n_skipped,
     recovered0 |-> run.man.n_recovered,
     modes |-> last.modes \cup {full_parse},
     rest |-> IF batch THEN Tail(run.todo) ELSE <<>>,
     cache0 |-> cache,
     wantCache |-> Called(ParserManipulatorInit(full_parse), parser_input, MaxWrites).cache,
     db0 |-> db]

\* the user rewrites a file of the directory
EditFile(path, doc) ==
    /\ budget.edits < MaxEdits
    /\ files[path] # doc
    /\ files' = [files EXCEPT ![path] = doc]
    /\ budget' = [budget EXCEPT !.edits = @ + 1]
    /\ prev' = [prev EXCEPT !.valid = FALSE]
    /\ run' = [run EXCEPT !.repeat = FALSE]
    /\ UNCHANGED <<cache, db, last, handler, probe, calc>>

\* what a call with result c leaves behind
Returns(c, parser_input, full_parse, batch, done) ==
    /\ cache' = c.cache
    /\ db' = c.db
    /\ last' = LastOf(c, parser_input, full_parse, batch, done)

\* ParserManipulator(full_parse).add_parser(parser_input), outside a batch
Call(parser_input, full_parse) ==
    /\ run.kind = "idle"
    /\ budget.calls < MaxCalls
    /\ Returns(Called(ParserManipulatorInit(full_parse), parser_input, MaxWrites),
               parser_input, full_parse, FALSE, {})
    /\ budget' = [budget EXCEPT !.calls = @ + 1]
    /\ prev' = [prev EXCEPT !.valid = FALSE]
    /\ UNCHANGED <<files, run, handler, probe, calc>>

\* ParserManipulator(full_parse, con=con) as api.py constructs it
NewManipulator(full_parse) == ParserManipulatorInit(full_parse)

\* parse_dir up to the loop
ParseDirStart(buy, full_parse, ignore_cached_errors) ==
    /\ run.kind = "idle"
    /\ budget.runs < MaxRuns
    /\ run' = [kind |-> "dir", buy |-> buy, full_parse |-> full_parse,
               ignore |-> ignore_cached_errors, cachename |-> NONE,
               todo |-> GetNotProcessedInputs(cache, XmlFilesInDir, buy,
                                              ignore_cached_errors, full_parse),
               man |-> NewManipulator(full_parse), done |-> {}, inserted |-> 0,
               seen |-> <<>>, cache0 |-> cache,
               repeat |-> /\ prev.valid
                          /\ prev.buy = buy
                          /\ prev.full_parse = full_parse
                          /\ prev.ignore = ignore_cached_errors]
    /\ budget' = [budget EXCEPT !.runs = @ + 1]
    /\ prev' = [prev EXCEPT !.valid = FALSE]
    /\ UNCHANGED <<files, cache, db, last, handler, probe, calc>>

\* parse_cache up to the loop: the loop iterates the list the handler loaded
ParseCacheStart(cachename, full_parse) ==
    /\ run.kind = "idle"
    /\ budget.runs < MaxRuns
    /\ run' = [kind |-> "cache", buy |-> FALSE, full_parse |-> full_parse,
               ignore |-> FALSE, cachename |-> cachename,
               todo |-> cache[CacheFile(cachename, full_parse)],
               man |-> NewManipulator(full_parse), done |-> {}, inserted |-> 0,
               seen |-> <<>>, cache0 |-> cache,
               repeat |-> FALSE]
    /\ budget' = [budget EXCEPT !.runs = @ + 1]
    /\ prev' = [prev EXCEPT !.valid = FALSE]
    /\ UNCHANGED <<files, cache, db, last, handler, probe, calc>>

\* the inputs whose rows the run has stored, after a call with result c
DoneAfter(c, parser_input) ==
    IF c.exc = NoExc /\ c.man.n_skipped = run.man.n_skipped /\ Len(c.p.data) > 0
    THEN run.done \cup {parser_input}
    ELSE run.done

\* the loop of parse_dir / parse_cache after an iteration with result c
Iterated(c, parser_input) ==
    /\ c.exc # "KeyboardInterrupt"
    /\ Returns(c, parser_input, run.full_parse, TRUE, run.done)
    /\ run' = IF c.exc # NoExc THEN Idle
              ELSE [run EXCEPT !.todo = Tail(@), !.man = c.man,
                               !.done = DoneAfter(c, parser_input),
                               !.inserted = @ + Len(c.ins),
                               !.seen = Append(@, parser_input)]

\* one iteration of the loop of parse_dir / parse_cache; an exception other
\* than KeyboardInterrupt leaves the function
BatchStep ==
    /\ run.kind # "idle"
    /\ run.todo # <<>>
    /\ Iterated(Called(run.man, Head(run.todo), MaxWrites), Head(run.todo))
    /\ UNCHANGED <<files, prev, budget, handler, probe, calc>>

\* the loop cut by KeyboardInterrupt in an iteration with result c
Interrupted(c, parser_input) ==
    /\ c.exc = "KeyboardInterrupt"
    /\ Returns(c, parser_input, run.full_parse, TRUE, run.done)
    /\ run' = Idle

\* the user's interrupt arrives during an iteration, after `fuel` durable
\* writes of it; except KeyboardInterrupt: pass, and the summary is printed
BatchInterrupt(fuel) ==
    /\ run.kind # "idle"
    /\ run.todo # <<>>
    /\ Interrupted(Called(run.man, Head(run.todo), fuel), Head(run.todo))
    /\ UNCHANGED <<files, prev, budget, handler, probe, calc>>

\* the loop ends and the summary is printed
BatchEnd ==
    /\ run.kind # "idle"
    /\ run.todo = <<>>
    /\ run' = Idle
    /\ prev' = IF run.kind = "dir"
               THEN [valid |-> TRUE, buy |-> run.buy, full_parse |-> run.full_parse,
                     ignore |-> run.ignore, cache |-> cache,
                     repDone |-> run.repeat,
                     repSame |-> run.repeat => (cache = prev.cache),
                     repInserted |-> IF run.repeat THEN run.inserted ELSE 0,
                     repParsed |-> IF run.repeat THEN run.man.n_parsed ELSE 0]
               ELSE prev
    /\ UNCHANGED <<files, cache, db, last, budget, handler, probe, calc>>

(***************************************************************************)
(* A CacheHandler object used on its own (tests/test_cache.py): add and rm *)
(* on the object, while the file may be unlinked and other handlers of the *)
(* same cachename may write it.                                            *)
(***************************************************************************)
\* the handler object as HandlerAdd / HandlerRm take it
HandlerObj == [cachefile |-> CacheFile(HandlerName, FALSE), data |-> handler.data]

\* the list without its entries equal to item, order kept
Without(list, item) == SelectSeq(list, LAMBDA x : x # item)

\* the history of an operation op(item) with result r = [c, h]
HandlerAfter(r, op, item) ==
    [data |-> r.h.data, n |-> handler.n + 1, op |-> op, item |-> item,
     exc |-> r.c.exc, file0 |-> cache[HandlerObj.cachefile], data0 |-> handler.data,
     expect |-> IF r.c.exc # NoExc THEN handler.expect
                ELSE IF op = "add" THEN Append(handler.expect, item)
                ELSE Without(handler.expect, item),
     clean |-> handler.clean]

\* what add / rm on the handler leave behind
HandlerReturns(r, op, item) ==
    /\ cache' = r.c.cache
    /\ handler' = HandlerAfter(r, op, item)
    /\ UNCHANGED <<files, db, run, last, prev, budget, probe, calc>>

\* handler.add(item)
HAdd(item) ==
    /\ handler.n < MaxOps
    /\ HandlerReturns(HandlerAdd(Ctx(ParserManipulatorInit(FALSE), MaxWrites),
                                 HandlerObj, item), "add", item)

\* handler.rm(item)
HRm(item) ==
    /\ handler.n < MaxOps
    /\ HandlerReturns(HandlerRm(Ctx(ParserManipulatorInit(FALSE), MaxWrites),
                                HandlerObj, item), "rm", item)

\* Path(handler.cachefile).unlink()
HUnlink ==
    /\ handler.n < MaxOps
    /\ cache[HandlerObj.cachefile] # <<>>
    /\ cache' = [cache EXCEPT ![HandlerObj.cachefile] = <<>>]
    /\ handler' = [handler EXCEPT !.n = @ + 1, !.op = "unlink", !.item = NoInput,
                                  !.exc = NoExc, !.file0 = cache[HandlerObj.cachefile],
                                  !.data0 = handler.data, !.clean = FALSE]
    /\ UNCHANGED <<files, db, run, last, prev, budget, probe, calc>>

\* CacheHandler(HandlerName).add(item) on a handler made for the occasion, as
\* the module functions and the manipulator do
HOtherAdd(item) ==
    /\ handler.n < MaxOps
    /\ ~In(item, cache[HandlerObj.cachefile])
    /\ cache' = AddIfAbsent(Ctx(ParserManipulatorInit(FALSE), MaxWrites),
                            CacheHandler(Ctx(ParserManipulatorInit(FALSE), MaxWrites),
                                         HandlerName, FALSE), item).cache
    /\ handler' = [handler EXCEPT !.n = @ + 1, !.op = "other", !.item = item,
                                  !.exc = NoExc, !.file0 = cache[HandlerObj.cachefile],
                                  !.data0 = handler.data, !.clean = FALSE]
    /\ UNCHANGED <<files, db, run, last, prev, budget, probe, calc>>

NextHandler ==
    \/ \E item \in HandlerItems : HAdd(item)
    \/ \E item \in HandlerItems : HRm(item)
    \/ HUnlink
    \/ \E item \in HandlerItems : HOtherAdd(item)

\* one directory content is enough here: no document is read
InitHandler == Init /\ files = [path \in Paths |-> DocGood]

SpecHandler == InitHandler /\ [][NextHandler]_vars

(***************************************************************************)
(* is_valid on a handler whose data attribute was assigned, as the tests   *)
(* do (ch.data = ...).                                                     *)
(***************************************************************************)
\* ch.data = data
SetData(data) ==
    /\ probe.data # data
    /\ probe' = [data |-> data, asked |-> FALSE, result |-> FALSE]
    /\ UNCHANGED <<files, cache, db, run, last, prev, budget, handler, calc>>

\* ch.is_valid()
IsValidCall ==
    /\ ~probe.asked
    /\ probe' = [probe EXCEPT !.asked = TRUE, !.result = IsValid(probe.data)]
    /\ UNCHANGED <<files, cache, db, run, last, prev, budget, handler, calc>>

NextValid ==
    \/ \E data \in PyData : SetData(data)
    \/ IsValidCall

SpecValid == InitHandler /\ [][NextValid]_vars

\* the manipulator used as a library, and the user editing files
(***************************************************************************)
(* The validation functions of parse.py called on their own: calc holds    *)
(* the function called last, its argument and what it returned; src is the *)
(* argument of the conversion whose result is converted back.              *)
(***************************************************************************)
\* the longest text handed to valid_list_of_numbers
MaxText == 3

\* the largest whole part of a number, and the longest list of numbers
MaxNum == 10

MaxItems == 2

TextChars == {"1", ".", ";", " ", "-", "[", "LF"}

RECURSIVE TextsOfLen(_)
TextsOfLen(n) ==
    IF n = 0 THEN {<<>>}
    ELSE {Append(t, ch) : t \in TextsOfLen(n - 1), ch \in TextChars}

Texts == UNION {TextsOfLen(n) : n \in 0..MaxText}

PyText(text) == [type |-> "str", text |-> text]

\* keys of KeyLen - 1 .. KeyLen + 1 characters, all "1" but one
KeyChars == {"1", "0", "9", "a", " ", "-", "S2"}

KeyOf(n, pos, ch) == [i \in 1..n |-> IF i = pos THEN ch ELSE "1"]

KeyInputs ==
    {PyText(KeyOf(n, pos, ch)) :
        n \in (KeyLen - 1)..(KeyLen + 1), pos \in 1..(KeyLen + 1), ch \in KeyChars}
    \cup {[type |-> "int", num |-> 1, frac |-> 0], [type |-> "NoneType"]}

Numbers ==
    [type : {"int"}, num : 0..MaxNum, frac : {0}]
    \cup [type : {"float"}, num : 0..MaxNum, frac : {0, 5}]

RECURSIVE NumbersOfLen(_)
NumbersOfLen(n) ==
    IF n = 0 THEN {<<>>}
    ELSE {Append(xs, x) : xs \in NumbersOfLen(n - 1), x \in Numbers}

NumberInputs ==
    {[islist |-> TRUE, elems |-> xs] : xs \in UNION {NumbersOfLen(n) : n \in 0..MaxItems}}
    \cup {[islist |-> FALSE, elems |-> <<x>>] : x \in Numbers}

\* the arguments FactRowElem is constructed with: for each annotation a
\* value that passes, one that does not, and one of another type
RowInputs ==
    [ChaveNFe : {PyText(KeyOf(KeyLen, 1, "1")), PyText(KeyOf(KeyLen - 1, 1, "1")),
                 [type |-> "int", num |-> 1, frac |-> 0]},
     DataHoraEmi : {[type |-> "datetime"], PyText(<<"1">>)},
     PagamentoTipo : {PyText(<<"1">>), PyText(<<"1", ";">>)},
     PagamentoValor : {PyText(<<"1", ".", "1">>), PyText(<<"-">>),
                       [type |-> "float", num |-> 1, frac |-> 5]},
     TotalProdutos : {PyText(<<"1", ".", "1">>), PyText(<<"-">>), [type |-> "NoneType"]},
     TotalDesconto : {PyText(<<"1">>), [type |-> "int", num |-> 1, frac |-> 0]},
     TotalTributos : {PyText(<<"1">>), PyText(<<"-">>), [type |-> "NoneType"]}]

\* the arguments BaseParser is constructed with, and the document the
\* file at the path holds
RawInputs ==
    [mapping : {TRUE}, path : {"missing", "wrong type"} \cup Paths,
     buy : {"missing", "True", "False", "str", "None"}]
    \cup {[mapping |-> FALSE, path |-> "missing", buy |-> "missing"]}

ParserArgs == [raw : RawInputs, doc : Docs, written : Range(Encodings)]

\* a call about to be made: the function and its argument
Given(fn, args) ==
    {[fn |-> fn, arg |-> arg, out |-> <<>>, src |-> <<>>, done |-> FALSE] : arg \in args}

\* the call returns out
Calc(fn, arg, out, src) ==
    /\ calc' = [fn |-> fn, arg |-> arg, out |-> out, src |-> src, done |-> TRUE]
    /\ UNCHANGED <<files, cache, db, run, last, prev, budget, handler, probe>>

Pending(fn) == calc.fn = fn /\ ~calc.done

ValidKeyCall ==
    /\ Pending("valid_key")
    /\ Calc(calc.fn, calc.arg, ValidKey(calc.arg), <<>>)

ValidListOfNumbersCall ==
    /\ Pending("valid_list_of_numbers")
    /\ Calc(calc.fn, calc.arg, ValidListOfNumbers(calc.arg), <<>>)

ConvertToCall ==
    /\ Pending("convert_to_list_of_numbers")
    /\ Calc(calc.fn, calc.arg, ConvertToListOfNumbers(calc.arg), <<>>)

\* the text just made is converted back
ConvertFromCall ==
    /\ calc.fn = "convert_to_list_of_numbers"
    /\ calc.done
    /\ Calc("convert_from_list_of_numbers", calc.out,
            ConvertFromListOfNumbers(calc.out), calc.arg)

FactRowElemCall ==
    /\ Pending("FactRowElem")
    /\ Calc(calc.fn, calc.arg, FactRowElemInit(calc.arg), <<>>)

BaseParserCall ==
    /\ Pending("BaseParser")
    /\ Calc(calc.fn, calc.arg,
            BaseParserOpen(calc.arg.raw, calc.arg.doc, calc.arg.written), <<>>)

NextValidate ==
    \/ ValidKeyCall
    \/ ValidListOfNumbersCall
    \/ ConvertToCall
    \/ ConvertFromCall
    \/ FactRowElemCall
    \/ BaseParserCall

InitValidate ==
    /\ InitDurable
    /\ files = [path \in Paths |-> DocGood]
    /\ calc \in Given("valid_key", KeyInputs)
                \cup Given("valid_list_of_numbers", Texts)
                \cup Given("convert_to_list_of_numbers", NumberInputs)
                \cup Given("FactRowElem", RowInputs)
                \cup Given("BaseParser", ParserArgs)

SpecValidate == InitValidate /\ [][NextValidate]_vars

NextCalls ==
    \/ \E path \in Paths, doc \in Docs : EditFile(path, doc)
    \/ \E parser_input \in ParserInput, full_parse \in BOOLEAN :
           Call(parser_input, full_parse)

\* the batch entry points of api.py
NextBatch ==
    \/ \E buy \in BOOLEAN, full_parse \in BOOLEAN, ignore \in BOOLEAN :
           ParseDirStart(buy, full_parse, ignore)
    \/ \E cachename \in CacheNames, full_parse \in BOOLEAN :
           ParseCacheStart(cachename, full_parse)
    \/ BatchStep
    \/ \E fuel \in 0..(MaxWrites - 1) : BatchInterrupt(fuel)
    \/ BatchEnd

Next == NextCalls \/ NextBatch \/ NextHandler \/ NextValid \/ NextValidate

Spec == Init /\ [][Next]_vars

\* direct add_parser calls on a directory the user may edit
SpecCalls == Init /\ [][NextCalls]_vars

\* batch runs over an unchanged directory, with the user's interrupts
SpecBatch == Init /\ [][NextBatch]_vars

(***************************************************************************)
(* Vocabulary of the properties.                                           *)
(***************************************************************************)
\* partition n lists input inp
Listed(inp, n) == inp \in Range(cache[n])

\* how many entries of partition n are input inp
Count(inp, n) == Cardinality({i \in 1..Len(cache[n]) : cache[n][i] = inp})

\* the failure partitions that list inp
FailuresOf(inp) == {n \in FailNames : Listed(inp, n)}

\* the success partition of a mode lists inp
Succeeded(inp, full_parse) == Listed(inp, GetSuccessCachename(full_parse))

\* the most recent add_parser call returned to its caller
Returned == last.called /\ last.exc = NoExc

\* the displayName of the document of the most recent call
LastName == GetName(last.p).name

\* the document of input inp as the file holds it, and its table
DocOf(inp) == files[inp.path]

TableOf(inp) ==
    fmt_tablename(GetName([NoParser EXCEPT !.INPUTS = inp, !.doc = DocOf(inp)]).name)

\* the fact row of inp's document is stored
FactStored(inp) ==
    /\ TableOf(inp) \in TableNames
    /\ \E i \in 1..Len(db.fact[TableOf(inp)]) :
           db.fact[TableOf(inp)][i].key = DocOf(inp).key

\* every line row of inp's document is stored
LinesStored(inp) ==
    /\ TableOf(inp) \in TableNames
    /\ DocOf(inp).det = "ok"
    /\ \A k \in 1..Len(DocOf(inp).items) :
           TransacRow(DocOf(inp), DocOf(inp).items[k]) \in Range(db.line[TableOf(inp)])

C2_RecoveredLeavesEveryFailurePartition ==
    (/\ Returned
     /\ last.preFail # {}
     /\ ~erroed(last.p)
     /\ Len(last.ins) > 0)
        => (/\ Succeeded(last.inp, last.full_parse)
            /\ FailuresOf(last.inp) = {})

\* C3: when a call extracts without errors and every record is already
\* stored, then on return the input is in the success partition of the mode
\* and is in none of the failure partitions it was in before the call.
C3_AlreadyStoredIsRecordedAsSuccess ==
    (/\ Returned
     /\ ~erroed(last.p)
     /\ Len(last.p.data) > 0
     /\ Len(last.ins) = 0)
        => (/\ Succeeded(last.inp, last.full_parse)
            /\ FailuresOf(last.inp) \cap last.preFail = {})

C5_SuccessMeansStored ==
    \A inp \in ParserInput :
        /\ Listed(inp, SUCCESS_FACT) => FactStored(inp)
        /\ Listed(inp, SUCCESS_BOTH) => (FactStored(inp) /\ LinesStored(inp))

\* C6: an input listed in a failure partition had at least one error in the
\* most recent extraction attempt on it.
C6_FailureMeansLastAttemptErred ==
    (last.called /\ FailuresOf(last.inp) # {}) => erroed(last.p)

\* C7: every row of a line table has a fact row with its fiscal key in the
\* parent fact table.
C7_LineRowHasFactRow ==
    \A t \in TableNames : \A i \in 1..Len(db.line[t]) :
        \E j \in 1..Len(db.fact[t]) : db.fact[t][j].key = db.line[t][i].key

C9_UnreadableOnlyInCouldNotRead ==
    (last.called /\ ~last.p.doc.readable)
        => (/\ last.exc = NoExc
            /\ Listed(last.inp, COULD_NOT_PARSE)
            /\ (FailuresOf(last.inp) \cap DocNames) \subseteq last.preFail
            /\ COULD_NOT_PARSE \in last.preFail
                   => (/\ FailuresOf(last.inp) = last.preFail
                       /\ \A n \in FailNames : Count(last.inp, n) <= 1))

\* C11: no iteration of a batch ends with an exception raised out of
\* add_parser (the user's interrupt apart), so the loop goes on to the
\* remaining inputs; a document that failed is recorded in the parser's
\* errors and listed in a failure partition.
C11_BatchNeverAborts ==
    (last.called /\ last.batch)
        => (/\ last.exc \in {NoExc, "KeyboardInterrupt"}
            /\ (last.exc = NoExc /\ erroed(last.p)) => FailuresOf(last.inp) # {})

\* C12: an iteration of a batch adds one to n_failed when the document's
\* read or extraction ended with errors and no record, and nothing otherwise.
C12_FailedCountsFailures ==
    (last.called /\ last.batch /\ last.exc = NoExc)
        => last.man.n_failed =
               last.failed0 + (IF erroed(last.p) /\ Len(last.p.data) = 0 THEN 1 ELSE 0)

\* the case of C10: the reader recorded no error, extraction recorded at
\* least one and produced no record
C10_Case ==
    /\ last.called
    /\ ~erroed(BaseParserInit(last.inp, last.p.doc))
    /\ erroed(last.p)
    /\ Len(last.p.data) = 0

\* C10 as stated: in that case the call leaves the input in the failure
\* partition named after the displayName, once, and not in could-not-read,
\* and raises nothing.
C10_AsStated ==
    C10_Case
        => (/\ last.exc = NoExc
            /\ Count(last.inp, LastName) = 1
            /\ ~Listed(last.inp, COULD_NOT_PARSE))

\* C10: in that case the call raises nothing, leaves the input exactly once
\* in the failure partition named after the displayName, and does not add it
\* to could-not-read (an input that was in could-not-read before stays).
C10_FailedParseIsListedOnce ==
    C10_Case
        => (/\ last.exc = NoExc
            /\ Count(last.inp, LastName) = 1
            /\ Listed(last.inp, COULD_NOT_PARSE) => COULD_NOT_PARSE \in last.preFail)

\* the document is processed again while its partition lists it
C10_Witness == C10_Case /\ LastName \in last.preFail

\* C20: an input that no partition lists, whose document extracts without
\* errors and whose fiscal key no fact table holds, processed in Fact mode:
\* exactly one row is inserted, a fact row in the table of the document, with
\* the document's key under ChaveNFe, its payment types under PagamentoTipo
\* and its payment amounts under PagamentoValor, and the input is listed in
\* the success partition of the Fact mode.
C20_Case ==
    /\ Returned
    /\ ~last.full_parse
    /\ ~erroed(last.p)
    /\ last.preFail = {}
    /\ ~last.preSucc
    /\ ~last.preStored

C20_FreshInputStoresOneFactRow ==
    C20_Case
        => (/\ Len(last.ins) = 1
            /\ last.ins[1].kind = "fact"
            /\ last.ins[1].cols.ChaveNFe = <<"Id", last.p.doc.key>>
            /\ last.ins[1].cols.PagamentoTipo = <<"tPag", last.p.doc.body>>
            /\ last.ins[1].cols.PagamentoValor = <<"vPag", last.p.doc.body>>
            /\ fmt_tablename(LastName) \in TableNames
            /\ last.ins[1] \in Range(db.fact[fmt_tablename(LastName)])
            /\ Listed(last.inp, SUCCESS_FACT))

\* a fresh input whose document is the twin was processed in Fact mode, and
\* its row is the only one of its table
C20_Witness ==
    /\ C20_Case
    /\ last.p.doc = DocTwin
    /\ db.fact[fmt_tablename(LastName)] = last.ins
    /\ Listed(last.inp, SUCCESS_FACT)

\* C21: when the table of the document already holds a fact row with the
\* document's fiscal key, processing the input in Fact mode returns, inserts
\* nothing, leaves the tables as they were and counts one more skipped
\* document.
C21_Case == last.called /\ ~last.full_parse /\ last.preInTable

C21_StoredRowIsSkipped ==
    C21_Case
        => (/\ last.exc = NoExc
            /\ last.ins = <<>>
            /\ db = last.db0
            /\ last.man.n_skipped = last.skipped0 + 1)

\* the input was stored by an earlier call and its document extracts again
C21_Witness ==
    /\ C21_Case
    /\ last.preSucc
    /\ ~erroed(last.p)
    /\ Len(last.p.data) = 1
    /\ last.man.n_skipped = 1

\* C22: every fact table holds at most one row per fiscal key, whatever
\* calls were made: repeated ones for a document, and ones for different
\* files that carry the same key.
C22_OneFactRowPerKey ==
    \A t \in TableNames : \A i, j \in 1..Len(db.fact[t]) :
        db.fact[t][i].key = db.fact[t][j].key => i = j

\* a second file with the key of a stored document was processed, and the
\* table of the two holds one row
C22_Witness ==
    /\ last.called
    /\ last.preInTable
    /\ ~erroed(last.p)
    /\ Len(last.p.data) > 0
    /\ \E inp \in ParserInput :
           inp.path # last.inp.path /\ Listed(inp, GetSuccessCachename(last.full_parse))
    /\ Len(db.fact[fmt_tablename(LastName)]) = 1

\* C23: a document whose payment amount is not numeric leaves a
\* ParserValidationError in the parser's errors, and its input is listed in
\* the partition of the document's name and not in the could-not-read one.
C23_NonNumericPayIsValidationError ==
    (last.called /\ last.exc = NoExc /\ last.p.doc.pay = "nonnumeric")
        => (/\ ValidErr \in Range(last.p.err)
            /\ Listed(last.inp, LastName)
            /\ ~Listed(last.inp, COULD_NOT_PARSE))

\* the inputs of the files of the directory, in their order, that the
\* partitions files do not list as success of the mode, nor, with ignore, as
\* unreadable
Expected(cacheFiles, buy, ignore, full_parse) ==
    SelectSeq([i \in 1..Len(XmlFilesInDir) |-> [path |-> XmlFilesInDir[i], buy |-> buy]],
              LAMBDA inp :
                  /\ inp \notin Range(cacheFiles[GetSuccessCachename(full_parse)])
                  /\ ignore => inp \notin Range(cacheFiles[COULD_NOT_PARSE]))

C25_InsertIsLastStep ==
    (last.called /\ last.exc = "KeyboardInterrupt")
        => (/\ (last.want # <<>> /\ last.ins = last.want) => cache = last.wantCache
            /\ last.ins = <<>>
                   => (/\ db = last.db0
                       /\ Succeeded(last.inp, last.full_parse) => last.preSucc))

\* a field holds a value its validator accepts: a valid fiscal key, a
\* datetime instance, a valid number-list string, a float-coercible value
FieldPasses(name, val) ==
    CASE FieldType(name) = "KeyType" -> ValidKey(val)
      [] FieldType(name) = "datetime" -> val.type = "datetime"
      [] FieldType(name) = "ListOfNumbersType" ->
             val.type = "str" /\ ValidListOfNumbers(val.text)
      [] OTHER ->
             \/ val.type \in {"int", "float"}
             \/ val.type = "str" /\ ParseFloat(val.text) # NotANumber

AllPass(kwargs) == \A i \in 1..Len(FactFields) : FieldPasses(FactFields[i], kwargs[FactFields[i]])

C26_Case == calc.fn = "FactRowElem" /\ calc.done

\* C26: Constructing a FactRowElem succeeds if and only if every field passes
\* its validator; on success values lists the fields in schema order, and on
\* any failure a ValueError is raised and no record is returned.
C26_ConstructionIffAllValid ==
    C26_Case =>
        /\ calc.out.exc = NoExc <=> AllPass(calc.arg)
        /\ calc.out.exc = NoExc =>
               /\ Len(calc.out.values) = Len(FactColumns)
               /\ \A i \in 1..Len(FactColumns) :
                      calc.out.values[i] = StoredValue(FactColumns[i], calc.arg[FactColumns[i]])
        /\ calc.out.exc # NoExc => (calc.out.exc = "ValueError" /\ calc.out.values = <<>>)

C27_Case == calc.fn = "valid_key" /\ calc.done

\* a str of exactly 44 characters, each one of 0 .. 9
IsFiscalKey(val) ==
    /\ val.type = "str"
    /\ Len(val.text) = 44
    /\ \A i \in 1..Len(val.text) : val.text[i] \in {"0", "1", "2", "3", "4", "5", "6", "7", "8", "9"}

\* C27: A fiscal key whose length is not 44 or that contains a non-digit
\* character always fails record construction, and a string of exactly 44
\* decimal digits always passes the key check.
C27_KeyIs44Digits ==
    C27_Case =>
        /\ IsFiscalKey(calc.arg) => calc.out
        /\ ~IsFiscalKey(calc.arg) =>
               (~calc.out /\ ValidateField("ChaveNFe", calc.arg) = "ValueError")

C28_Case == calc.fn = "valid_list_of_numbers" /\ calc.done

\* an unsigned integer or decimal: digits, or digits, a point and digits
IsUnsignedNumber(piece) ==
    \/ AllDecimal(piece)
    \/ \E k \in 2..(Len(piece) - 1) :
           /\ piece[k] = "."
           /\ AllDecimal(SubSeq(piece, 1, k - 1))
           /\ AllDecimal(SubSeq(piece, k + 1, Len(piece)))

\* one or more unsigned numbers separated by single semicolons, and no
\* other character
IsNumberList(text) ==
    \A i \in 1..Len(Split(text, <<>>)) : IsUnsignedNumber(Split(text, <<>>)[i])

\* C28: valid_list_of_numbers(s) is true if and only if s is one or more
\* unsigned integers or decimals separated by single semicolons, with no
\* leading or trailing separator and no bracket, sign, comma, space or other
\* character.
C28_ValidIffNumberList == C28_Case => (calc.out <=> IsNumberList(calc.arg))

\* ten times the value of a number with one decimal
TimesTen(x) == 10 * x.num + x.frac

\* a non-empty list of non-negative integers was converted to text and
\* the text converted back
C29_Case ==
    /\ calc.fn = "convert_from_list_of_numbers"
    /\ calc.done
    /\ calc.src.islist
    /\ calc.src.elems # <<>>
    /\ \A i \in 1..Len(calc.src.elems) : calc.src.elems[i].type = "int"

\* C29: For every non-empty list xs of non-negative integers,
\* convert_to_list_of_numbers(xs) is a valid number-list string and
\* convert_from_list_of_numbers applied to it returns a list of the same
\* length that is numerically equal to xs element by element.
C29_RoundTrip ==
    C29_Case =>
        /\ ValidListOfNumbers(calc.arg)
        /\ calc.out.exc = NoExc
        /\ Len(calc.out.nums) = Len(calc.src.elems)
        /\ \A i \in 1..Len(calc.src.elems) :
               TimesTen(calc.out.nums[i]) = TimesTen(calc.src.elems[i])

C29_Witness ==
    /\ C29_Case
    /\ calc.arg = <<"1", "0", ";", "7">>
    /\ Len(calc.out.nums) = 2
    /\ calc.out.nums[1].num = 10
    /\ calc.out.nums[2].num = 7

\* the argument is not a mapping, or lacks path or buy, or holds a path or
\* a buy of the wrong type
Malformed(raw) ==
    \/ ~raw.mapping
    \/ raw.path \in {"missing", "wrong type"}
    \/ raw.buy \in {"missing", "str", "None"}

C30_Case == calc.fn = "BaseParser" /\ calc.done

\* C30: Constructing a parser never raises: for an input that is not a
\* mapping, or that lacks the path or buy field, or whose path or buy field
\* has the wrong type, construction records a ParserInitError in err, leaves
\* data empty and returns.
C30_MalformedInputIsInitError ==
    (C30_Case /\ Malformed(calc.arg.raw)) =>
        (InitErr \in Range(calc.out.err) /\ calc.out.data = <<>>)

(***************************************************************************)
(* The CacheHandler object on its own.                                     *)
(***************************************************************************)
\* the file of the long-lived handler
HandlerFile == cache[HandlerObj.cachefile]

\* the last operation on the long-lived handler was op, and it returned
Did(op) == handler.op = op /\ handler.exc = NoExc

\* the list with one occurrence of item taken out, the others in place
MinusOne(list, item) ==
    IF \A i \in 1..Len(list) : list[i] # item THEN list
    ELSE LET i == CHOOSE k \in 1..Len(list) :
                      list[k] = item /\ \A j \in 1..(k - 1) : list[j] # item
         IN  [k \in 1..(Len(list) - 1) |-> IF k < i THEN list[k] ELSE list[k + 1]]

\* C13: when the file of a handler is gone, the next add of a new item leaves
\* in the file the entries the handler holds in memory followed by the new
\* item, and the next rm of an entry leaves the entries in memory minus that
\* one; both return.
C13_DeletedFileIsHealed ==
    (/\ handler.op \in {"add", "rm"}
     /\ handler.file0 = <<>>
     /\ handler.data0 # <<>>
     /\ (handler.item \in Range(handler.data0)) = (handler.op = "rm"))
        => (/\ handler.exc = NoExc
            /\ HandlerFile = IF handler.op = "add"
                             THEN handler.data0 \o <<handler.item>>
                             ELSE MinusOne(handler.data0, handler.item))

\* two entries were added, the file was unlinked, and an rm returned
C13_Witness ==
    /\ Did("rm")
    /\ handler.file0 = <<>>
    /\ Len(handler.data0) = 2
    /\ handler.clean = FALSE
    /\ Len(HandlerFile) = 1

\* C14: add or rm on a handler whose file holds more entries than its list
\* in memory leaves in the file, whether it returns or raises, every entry
\* the file held, except the one a returning rm removed, and with the one a
\* returning add appended.
C14_LongerFileIsKept ==
    (handler.op \in {"add", "rm"} /\ Len(handler.file0) > Len(handler.data0))
        => (/\ \A x \in Range(handler.file0) :
                   x \in Range(HandlerFile) \/ (Did("rm") /\ x = handler.item)
            /\ Did("add") => handler.item \in Range(HandlerFile))

\* C15: after every add or rm that returned, the list in the file is the
\* list the handler holds in memory, and a handler opened then on the same
\* cachename loads that list, in that order.
C15_FileEqualsMemory ==
    (Did("add") \/ Did("rm"))
        => (/\ HandlerFile = handler.data
            /\ CacheHandler(Ctx(ParserManipulatorInit(FALSE), MaxWrites),
                            HandlerName, FALSE).data = handler.data)

\* an rm returned and left two entries
C15_Witness == Did("rm") /\ Len(handler.data) = 2 /\ Len(handler.data0) = 3

\* C16: while only the handler touches its file, the list is the items added
\* in the order of their adds, without the items removed: add appends at the
\* end, rm takes out its item and keeps the order of the others.
C16_AddAppendsRmKeepsOrder ==
    handler.clean => (HandlerFile = handler.expect /\ handler.data = handler.expect)

\* three distinct items were added to the empty partition and the first of
\* them was removed
C16_Witness ==
    /\ handler.clean
    /\ Did("rm")
    /\ Len(handler.data0) = 3
    /\ handler.item = handler.data0[1]
    /\ handler.data = <<handler.data0[2], handler.data0[3]>>

\* C17: add of an item the partition file holds raises
\* KeyAlreadyProcessedError and changes neither the file nor the list in
\* memory.
C17_AddOfListedItemRaises ==
    (handler.op = "add" /\ handler.item \in Range(handler.file0))
        => (/\ handler.exc = "KeyAlreadyProcessedError"
            /\ HandlerFile = handler.file0
            /\ handler.data = handler.data0)

\* an item of a partition of two entries was added again
C17_Witness ==
    /\ handler.op = "add"
    /\ handler.item \in Range(handler.file0)
    /\ Len(handler.file0) = 2
    /\ handler.exc = "KeyAlreadyProcessedError"

\* C18: rm of an item the handler does not hold raises KeyNotFoundError and
\* changes neither the file nor the list in memory.
C18_RmOfAbsentItemRaises ==
    (handler.op = "rm" /\ handler.item \notin Range(handler.data0))
        => (/\ handler.exc = "KeyNotFoundError"
            /\ HandlerFile = handler.file0
            /\ handler.data = handler.data0)

\* an item that is in neither the file nor the list was removed from a
\* partition of two entries
C18_Witness ==
    /\ handler.op = "rm"
    /\ handler.item \notin Range(handler.data0) \cup Range(handler.file0)
    /\ Len(handler.file0) = 2
    /\ handler.exc = "KeyNotFoundError"

(***************************************************************************)
(* is_valid.                                                               *)
(***************************************************************************)
\* a dict holding a str under path and a bool under buy
IsParserInput(value) == value.type = "dict" /\ value.path = "str" /\ value.buy = "bool"

\* C19: is_valid returns True exactly when data is a list and every element
\* is a dict holding a str under path and a bool under buy.
C19_IsValidIffAllParserInputs ==
    probe.asked
        => (probe.result = (/\ probe.data.islist
                            /\ \A i \in 1..Len(probe.data.elems) :
                                   IsParserInput(probe.data.elems[i])))

C31_Case ==
    /\ calc.fn = "BaseParser"
    /\ calc.done
    /\ ~Malformed(calc.arg.raw)
    /\ calc.arg.doc.readable

\* C31: When a file's contents do not decode as UTF-8 but do decode as
\* Latin-1, the reader falls back to Latin-1 and opens the document without
\* recording an error; a read error is recorded only if every attempted
\* encoding fails.
C31_FallsBackToLatin1 ==
    C31_Case =>
        (InitErr \in Range(calc.out.err)
            <=> \A i \in 1..Len(Encodings) : ~Decodes(calc.arg.written, Encodings[i]))

\* C32: n_recovered is increased by one for an input only if that add_parser
\* call removed the input from a failure cache file; an input that was in no
\* failure partition, or that still fails, does not increase n_recovered.
C32_RecoveredMeansRemoved ==
    (Returned /\ last.man.n_recovered # last.recovered0) =>
        /\ last.man.n_recovered = last.recovered0 + 1
        /\ ~erroed(last.p)
        /\ \E n \in last.preFail : ~Listed(last.inp, n)

\* C33: _save_successfull_fileparse adds the parser's input to the mode's
\* success partition only if the parser parsed with no errors; for a parser
\* that holds any error, or that was never parsed, it changes no partition.
C33_SuccessOnlyWithoutErrors ==
    (Returned /\ (erroed(last.p) \/ ~Parsed(last.p))) =>
        \A n \in {SUCCESS_FACT, SUCCESS_BOTH} : cache[n] = last.cache0[n]

\* every add_parser call so far was made in the mode of the last one
OneMode == last.called /\ last.modes = {last.full_parse}

\* C34: In every state reached by add_parser calls in one mode, no input is
\* at the same time in that mode's success partition and in a failure
\* partition (could-not-read or a document-class partition).
C34_SuccessAndFailureDisjoint ==
    OneMode =>
        \A inp \in ParserInput :
            ~(Succeeded(inp, last.full_parse) /\ FailuresOf(inp) # {})

\* no entry of the list occurs twice
NoDuplicates(list) == \A i, j \in 1..Len(list) : list[i] = list[j] => i = j

\* C35: After any sequence of add and rm calls on one handler of a
\* partition, including calls made after the partition file was deleted or
\* truncated, the partition list contains no input twice.
C35_PartitionHasNoDuplicates == NoDuplicates(HandlerFile) /\ NoDuplicates(handler.data)

\* C36: A document is counted as already stored (n_skipped) only if its
\* extraction produced at least one record and every one of its records was
\* found in storage; a document whose read or extraction failed is never
\* counted in n_skipped.
C36_SkippedMeansStored ==
    (last.called /\ last.man.n_skipped # last.skipped0) =>
        /\ ~erroed(last.p)
        /\ Len(last.p.data) > 0
        /\ \A i \in 1..Len(last.p.data) :
               RowExists([db |-> last.db0], last.p.data[i], fmt_tablename(LastName))

\* C37: add_parser inserts rows into storage only for a document whose
\* extraction recorded no error: if the parser holds any error after parse(),
\* storage is unchanged by that add_parser call.
C37_ErrorMeansNoInsert ==
    (last.called /\ erroed(last.p)) => (db = last.db0 /\ last.ins = <<>>)

\* the list the handler of parse_cache loaded when the run began
StartList == run.cache0[CacheFile(run.cachename, run.full_parse)]

\* C38: parse_cache attempts each input that was in the named partition when
\* the run started exactly once, in list order, and then terminates, even
\* though processing an input may remove it from that same partition during
\* the run.  While the run goes on, the inputs attempted followed by the ones
\* to come are the list of the start; a run that ended without the user's
\* interrupt left no input of the list unattempted.
C38_EachListedInputOnce ==
    /\ run.kind = "cache" => run.seen \o run.todo = StartList
    /\ (last.called /\ last.batch /\ last.kind = "cache" /\ run.kind = "idle"
            /\ last.exc # "KeyboardInterrupt") => last.rest = <<>>

TypeOK ==
    /\ files \in [Paths -> Docs]
    /\ \A n \in CacheNames : \A i \in 1..Len(cache[n]) : cache[n][i] \in ParserInput
    /\ run.kind \in {"idle", "dir", "cache"}
    /\ last.exc \in {NoExc, "KeyboardInterrupt", "UnicodeDecodeError"}
    /\ last.exc = "KeyboardInterrupt" => last.batch
    /\ Len(last.want) < MaxWrites

====
